---- MODULE Spec2Model ----
(***************************************************************************)
(* whipple_cams_to_json: the camera geometry tables of WhippleCams.h       *)
(* written as one JSON object, keyed by the number of ADC channels.        *)
(*                                                                         *)
(* The emitted text is modelled as the sequence of the pieces the program  *)
(* streams, each a token <<lexeme, value>>: a string literal of the source *)
(* is its lexeme (line ends left out) with value 0, a streamed number is   *)
(* <<"num", v>> with v the value its digits denote, and a number streamed  *)
(* inside a field's literals is <<field, v>>.  A float table holds         *)
(* integer-valued floats (exact below 2^24), an int table holds ints.      *)
(***************************************************************************)
EXTENDS Integers, Sequences, FiniteSets, TLC

(***************************************************************************)
(* Bounds of the model.                                                    *)
(***************************************************************************)
\* Width of a neighbor row.  WhippleCams.h, which sets it, is not part of
\* the sources at hand; the model keeps rows narrow.
NUM_NEIGHBORS == 3
\* Physical rows of the table the generic inputs are drawn over.
NumRows == 2
\* Longest sequence of records handed to the encoder in the generic inputs.
MaxRecords == 2
\* Words of readable memory that follow a table before the mapping ends.
MemSlack == 1
\* Width of size_t in the model (64 on the build's platform; TLC's
\* integers are narrower): wide enough for every table size used here.
SizeBits == 16
\* The pixel counts of main() are divided by this to keep tables small.
PixelScale == 100

SizeMod == 2 ^ SizeBits

\* Conversion of a (possibly negative) int to size_t, as the usual
\* arithmetic conversions do in `neighbors[i][j] >= numTubes` and as
\* unsigned subtraction does in `npix - 1`.
ToSize(v) == v % SizeMod

(***************************************************************************)
(* Tokens of the emitted text.                                             *)
(***************************************************************************)
Lit(s) == <<s, 0>>
Num(v) == <<"num", v>>

\* operator<<(int), operator<<(unsigned), operator<<(size_t): all digits.
FormatInt(v) == v

\* Number of decimal digits of a natural number.
RECURSIVE Digits(_)
Digits(n) == IF n < 10 THEN 1 ELSE 1 + Digits(n \div 10)

\* operator<<(float) on a stream left at its defaults: %g with precision 6,
\* i.e. six significant digits, round-half-even on the exact value.  The
\* result is the number the printed digits denote.
FormatFloat(v) ==
  LET a == IF v < 0 THEN -v ELSE v
      d == Digits(a)
  IN  IF d <= 6 THEN v
      ELSE LET scale == 10 ^ (d - 6)
               q == a \div scale
               r == a % scale
               up == (2 * r > scale) \/ (2 * r = scale /\ q % 2 = 1)
               m == (IF up THEN q + 1 ELSE q) * scale
           IN  IF v < 0 THEN -m ELSE m

(***************************************************************************)
(* Memory.  A table is static data; an element past its end is whatever    *)
(* follows it in the image (adj), for MemSlack words, and a fault beyond.  *)
(***************************************************************************)
\* array[i] of a float table (index from 0).
ReadFloat(array, i, adj) ==
  IF i < Len(array) THEN [ok |-> TRUE, v |-> array[i + 1], oob |-> FALSE]
  ELSE IF i < Len(array) + MemSlack THEN [ok |-> TRUE, v |-> adj.flt, oob |-> TRUE]
  ELSE [ok |-> FALSE, v |-> 0, oob |-> TRUE]

\* neighbors[i][j] of an int table of rows of NUM_NEIGHBORS: the element at
\* flat offset i * NUM_NEIGHBORS + j, inside row i or not.
ReadInt(neighbors, i, j, adj) ==
  LET f == i * NUM_NEIGHBORS + j
      size == Len(neighbors) * NUM_NEIGHBORS
  IN  IF f < size
        THEN [ok |-> TRUE, v |-> neighbors[(f \div NUM_NEIGHBORS) + 1][(f % NUM_NEIGHBORS) + 1],
              oob |-> FALSE]
      ELSE IF f < size + MemSlack THEN [ok |-> TRUE, v |-> adj.int, oob |-> TRUE]
      ELSE [ok |-> FALSE, v |-> 0, oob |-> TRUE]

(***************************************************************************)
(* arrayToJsonArray                                                        *)
(***************************************************************************)
\* State of a stream while a function runs: out the text so far, rd the
\* elements read, oob whether memory past a table was read, ok FALSE once
\* a read faulted.
Stream0 == [out |-> <<>>, rd |-> {}, oob |-> FALSE, ok |-> TRUE]

Emit(st, toks) == [st EXCEPT !.out = @ \o toks]

\* The separator test of the loop body: `if (i < npix - 1)`, unsigned.
NotLast(i, npix) == i < ToSize(npix - 1)

\* A loop that tests `i <= npix - 1` instead.
ArrayLoopCondWrapped(i, npix) == i <= ToSize(npix - 1)

\* The loop condition `i < npix`.
ArrayLoopCond(i, npix) == i < npix

RECURSIVE ArrayLoop(_, _, _, _, _)
ArrayLoop(array, npix, adj, i, st) ==
  IF ~ArrayLoopCond(i, npix) THEN st
  ELSE LET r == ReadFloat(array, i, adj)
           st1 == [st EXCEPT !.rd = @ \cup {<<i, 0>>}, !.oob = @ \/ r.oob]
       IN  IF ~r.ok THEN [st1 EXCEPT !.ok = FALSE]
           ELSE ArrayLoop(array, npix, adj, i + 1,
                  Emit(st1, <<Num(FormatFloat(r.v))>>
                            \o (IF NotLast(i, npix) THEN <<Lit(", ")>> ELSE <<>>)))

arrayToJsonArray(array, npix, adj) ==
  LET st == ArrayLoop(array, npix, adj, 0, Emit(Stream0, <<Lit("[")>>))
  IN  IF st.ok THEN Emit(st, <<Lit("]")>>) ELSE st

(***************************************************************************)
(* neighborsToJsonArray                                                    *)
(***************************************************************************)
\* A scan that stops at any negative entry.
AnyNegative(v) == v < 0

\* The loop condition `neighbors[i][j] != -1`, negated: the sentinel.
IsSentinel(v) == v = -1

\* The same comparison made on signed values.
OutOfRangeSigned(v, numTubes) == v >= numTubes

\* `neighbors[i][j] >= numTubes`: int against size_t, compared unsigned.
OutOfRange(v, numTubes) == ToSize(v) >= numTubes

\* A separator placed by column, `if (j > 0)`.
SeparatorByColumn(first, j) == j > 0

\* The separator test of the inner loop: `if (!first)`.
NeedsSeparator(first, j) == ~first

RECURSIVE RowLoop(_, _, _, _, _, _, _)
RowLoop(neighbors, numTubes, adj, i, j, first, st) ==
  LET r == ReadInt(neighbors, i, j, adj)
      st1 == [st EXCEPT !.rd = @ \cup {<<i, j>>}, !.oob = @ \/ r.oob]
  IN  IF ~r.ok THEN [st1 EXCEPT !.ok = FALSE]
      ELSE IF IsSentinel(r.v) THEN st1
      ELSE IF OutOfRange(r.v, numTubes)
        THEN RowLoop(neighbors, numTubes, adj, i, j + 1, first, st1)
      ELSE RowLoop(neighbors, numTubes, adj, i, j + 1, FALSE,
             Emit(st1, (IF NeedsSeparator(first, j) THEN <<Lit(", ")>> ELSE <<>>)
                       \o <<Num(FormatInt(r.v))>>))

RECURSIVE TubeLoop(_, _, _, _, _)
TubeLoop(neighbors, numTubes, adj, i, st) ==
  IF ~(i < numTubes) THEN st
  ELSE LET st1 == RowLoop(neighbors, numTubes, adj, i, 0, TRUE, Emit(st, <<Lit("[ ")>>))
       IN  IF ~st1.ok THEN st1
           ELSE TubeLoop(neighbors, numTubes, adj, i + 1,
                  Emit(st1, <<Lit(" ]")>>
                            \o (IF NotLast(i, numTubes) THEN <<Lit(", ")>> ELSE <<>>)))

neighborsToJsonArray(neighbors, numTubes, adj) ==
  LET st == TubeLoop(neighbors, numTubes, adj, 0, Emit(Stream0, <<Lit("[ ")>>))
  IN  IF st.ok THEN Emit(st, <<Lit(" ]")>>) ELSE st

(***************************************************************************)
(* writeDataSetToJson                                                      *)
(***************************************************************************)
\* The four tables are read in turn; a fault ends the process, so nothing
\* after it is read.
writeDataSetToJson(json, nadc, posX, posY, radius, neighbors, npix, more, adj) ==
  LET X == arrayToJsonArray(posX, npix, adj)
      Y == arrayToJsonArray(posY, npix, adj)
      R == arrayToJsonArray(radius, npix, adj)
      N == neighborsToJsonArray(neighbors, npix, adj)
      okX == X.ok
      okY == okX /\ Y.ok
      okR == okY /\ R.ok
      okN == okR /\ N.ok
  IN  [ok  |-> okN,
       oob |-> X.oob \/ (okX /\ Y.oob) \/ (okY /\ R.oob) \/ (okR /\ N.oob),
       rd  |-> [x   |-> X.rd,
                y   |-> IF okX THEN Y.rd ELSE {},
                r   |-> IF okY THEN R.rd ELSE {},
                nbr |-> IF okR THEN N.rd ELSE {}],
       out |-> IF ~okN THEN json
               ELSE json
                    \o << <<"key", FormatInt(nadc)>>,
                          <<"nadc", FormatInt(nadc)>>,
                          <<"npix", FormatInt(npix)>> >>
                    \o <<Lit("x")>> \o X.out \o <<Lit(",")>>
                    \o <<Lit("y")>> \o Y.out \o <<Lit(",")>>
                    \o <<Lit("r")>> \o R.out \o <<Lit(",")>>
                    \o <<Lit("neighbors")>> \o N.out
                    \o <<Lit(IF more THEN "  }," ELSE "  }")>>]

(***************************************************************************)
(* Inputs.                                                                 *)
(***************************************************************************)
\* Values an int table may hold: the sentinel, another negative value, and
\* two indices (index 1 lies outside a camera of one pixel).
IntVals == (-2) .. 1
\* Values a float table may hold; the last needs seven significant digits.
FloatVals == {0, -3, 1234567}
\* What may follow a table in memory.
Adjacent == [int : {-1, 1}, flt : {0, 1234567}]

Rows == [1 .. NUM_NEIGHBORS -> IntVals]

\* A well-formed table of n pixels: pixel i (from 0) lists its successor
\* and its predecessor on a ring, then the sentinel.
RingRow(i, n) ==
  [j \in 1 .. NUM_NEIGHBORS |->
     IF j = 1 THEN (i + 1) % n
     ELSE IF j = 2 /\ NUM_NEIGHBORS > 2 THEN (i + n - 1) % n
     ELSE -1]

\* off tells the coordinates of one table from those of another.
RingTable(n, off) ==
  [posX      |-> [i \in 1 .. n |-> off + i],
   posY      |-> [i \in 1 .. n |-> -(off + i)],
   radius    |-> [i \in 1 .. n |-> 10 * (off + i)],
   neighbors |-> [i \in 1 .. n |-> RingRow(i - 1, n)]]

\* One record of the encoder's input: the key, the table and the number of
\* active pixels.
Call(nadc, tab, npix) == [nadc |-> nadc, tab |-> tab, npix |-> npix]

\* Inputs that vary one neighbor row over every content, encoded once.
NeighborInputs ==
  { [tables |-> [t \in {"T"} |-> [RingTable(NumRows, 0) EXCEPT !.neighbors[p] = row]],
     calls  |-> <<Call(120, "T", n)>>]
    : p \in 1 .. NumRows, row \in Rows, n \in 1 .. NumRows }

\* Inputs that vary the x coordinates over every content, encoded once.
CoordInputs ==
  { [tables |-> [t \in {"T"} |-> [RingTable(NumRows, 0) EXCEPT !.posX = xs]],
     calls  |-> <<Call(120, "T", n)>>]
    : xs \in [1 .. NumRows -> FloatVals], n \in 0 .. NumRows + 1 }

\* Inputs that vary the sequence of records over a well-formed table: two
\* keys, and a camera that is empty, full, or larger than the table.
Keys == {120, 384}
Records == { Call(a, "T", n) : a \in Keys, n \in {0, NumRows, NumRows + 1} }
RecordSeqs == UNION { [1 .. m -> Records] : m \in 1 .. MaxRecords }
DocumentInputs ==
  { [tables |-> [t \in {"T"} |-> RingTable(NumRows, 0)], calls |-> cs] : cs \in RecordSeqs }

\* main(): the five datasets, in the order of its calls.  Pixel counts are
\* scaled down; each table has as many rows as its name says, scaled.
Scaled(n) == n \div PixelScale

\* The last two calls in the other order.
MainCallsReordered ==
  << Call(120, "WC109", Scaled(109)),
     Call(156, "WC151", Scaled(151)),
     Call(336, "WC331", Scaled(331)),
     Call(384, "WC490", Scaled(379)),
     Call(492, "WC490", Scaled(490)) >>

MainCalls ==
  << Call(120, "WC109", Scaled(109)),
     Call(156, "WC151", Scaled(151)),
     Call(336, "WC331", Scaled(331)),
     Call(492, "WC490", Scaled(490)),
     Call(384, "WC490", Scaled(379)) >>
TableSize(t) ==
  CASE t = "WC109" -> 109 [] t = "WC151" -> 151 [] t = "WC331" -> 331 [] t = "WC490" -> 490
MainTables ==
  [t \in {"WC109", "WC151", "WC331", "WC490"} |-> RingTable(Scaled(TableSize(t)), TableSize(t))]
MainInputs == { [tables |-> MainTables, calls |-> MainCalls] }

Inputs == NeighborInputs \cup CoordInputs \cup DocumentInputs \cup MainInputs

(***************************************************************************)
(* main                                                                    *)
(***************************************************************************)
VARIABLES
  tables,   \* the geometry tables, by name (static data, never written)
  calls,    \* the records to encode, in order
  adj,      \* what follows the tables in memory: <<>> until first read
  pc,       \* where main() is
  k,        \* number of datasets written so far
  json,     \* the std::ostringstream json
  file,     \* whipple_cams.json
  log,      \* per dataset written: its place in json and what it read
  prev      \* <<text>> of the file a first run left, <<>> during the first

vars == <<tables, calls, adj, pc, k, json, file, log, prev>>

Init ==
  /\ \E inp \in Inputs : tables = inp.tables /\ calls = inp.calls
  /\ adj = <<>>
  /\ pc = "open"
  /\ k = 0
  /\ json = <<>>
  /\ file = [exists |-> FALSE, text |-> <<>>]
  /\ log = <<>>
  /\ prev = <<>>

\* std::ofstream outputFile("whipple_cams.json"): creates or truncates.
OpenOutputFile ==
  /\ pc = "open"
  /\ file' = [exists |-> TRUE, text |-> <<>>]
  /\ pc' = "start"
  /\ UNCHANGED <<tables, calls, adj, k, json, log, prev>>

\* if (!outputFile) return 1.
OpenFails ==
  /\ pc = "open"
  /\ pc' = "exit1"
  /\ UNCHANGED <<tables, calls, adj, k, json, file, log, prev>>

\* A stream that outlives the run and keeps its text.
StaleStream(old) == old

\* std::ostringstream json: a new, empty stream.
FreshStream(old) == <<>>

\* json << "{\n" and the header.
StartJson ==
  /\ pc = "start"
  /\ json' = FreshStream(json) \o <<Lit("{"), Lit("header")>>
  /\ k' = 0
  /\ log' = <<>>
  /\ pc' = "records"
  /\ UNCHANGED <<tables, calls, adj, file, prev>>

\* The `more` argument: defaulted to true, false at the last call.
More(i, n) == i < n

\* One call of writeDataSetToJson from main().
WriteDataSet ==
  /\ pc = "records"
  /\ k < Len(calls)
  /\ \E a \in (IF adj = <<>> THEN Adjacent ELSE {adj[1]}) :
       LET c == calls[k + 1]
           t == tables[c.tab]
           res == writeDataSetToJson(json, c.nadc, t.posX, t.posY, t.radius,
                                     t.neighbors, c.npix, More(k + 1, Len(calls)), a)
       IN  /\ adj' = IF res.oob THEN <<a>> ELSE adj
           /\ log' = Append(log, [from |-> Len(json) + 1, to |-> Len(res.out),
                                  rd |-> res.rd, ok |-> res.ok])
           /\ IF res.ok
                THEN /\ json' = res.out
                     /\ k' = k + 1
                     /\ pc' = IF k + 1 = Len(calls) THEN "end" ELSE "records"
                ELSE /\ json' = json
                     /\ k' = k
                     /\ pc' = "crashed"
  /\ UNCHANGED <<tables, calls, file, prev>>

\* json << "}\n".
EndJson ==
  /\ pc = "end"
  /\ json' = json \o <<Lit("}")>>
  /\ pc' = "write"
  /\ UNCHANGED <<tables, calls, adj, k, file, log, prev>>

\* outputFile << json.str(); outputFile.close(); return 0.
WriteFile ==
  /\ pc = "write"
  /\ file' = [file EXCEPT !.text = json]
  /\ pc' = "done"
  /\ UNCHANGED <<tables, calls, adj, k, json, log, prev>>

\* The program is run a second time on the same tables.
Rerun ==
  /\ pc \in {"done", "crashed"}
  /\ prev = <<>>
  /\ prev' = <<file.text>>
  /\ pc' = "open"
  /\ UNCHANGED <<tables, calls, adj, k, json, file, log>>

Next ==
  \/ OpenOutputFile
  \/ OpenFails
  \/ StartJson
  \/ WriteDataSet
  \/ EndJson
  \/ WriteFile
  \/ Rerun

Spec == Init /\ [][Next]_vars

(***************************************************************************)
(* Reading the emitted text back.                                          *)
(***************************************************************************)
NoParse(q) == [ok |-> FALSE, items |-> <<>>, seps |-> 0, next |-> q]

\* The elements of a list of numbers from position q on, up to its closing
\* lexeme: a number may only open the list or follow a separator, a
\* separator may only follow a number.  mode is what came last.
RECURSIVE ParseElems(_, _, _, _, _, _)
ParseElems(s, q, close, mode, items, seps) ==
  IF q > Len(s) THEN NoParse(q)
  ELSE IF s[q] = Lit(close)
    THEN [ok |-> mode # "sep", items |-> items, seps |-> seps, next |-> q + 1]
  ELSE IF s[q][1] = "num"
    THEN IF mode = "item" THEN NoParse(q)
         ELSE ParseElems(s, q + 1, close, "item", Append(items, s[q][2]), seps)
  ELSE IF s[q] = Lit(", ")
    THEN IF mode # "item" THEN NoParse(q)
         ELSE ParseElems(s, q + 1, close, "sep", items, seps + 1)
  ELSE NoParse(q)

ParseNums(s, p, open, close) ==
  IF p > Len(s) \/ s[p] # Lit(open) THEN NoParse(p)
  ELSE ParseElems(s, p + 1, close, "start", <<>>, 0)

\* The same for the list of neighbor lists.
RECURSIVE ParseRowElems(_, _, _, _, _)
ParseRowElems(s, q, mode, items, seps) ==
  IF q > Len(s) THEN NoParse(q)
  ELSE IF s[q] = Lit(" ]")
    THEN [ok |-> mode # "sep", items |-> items, seps |-> seps, next |-> q + 1]
  ELSE IF s[q] = Lit("[ ")
    THEN IF mode = "item" THEN NoParse(q)
         ELSE LET row == ParseNums(s, q, "[ ", " ]")
              IN  IF ~row.ok \/ row.seps # (IF row.items = <<>> THEN 0 ELSE Len(row.items) - 1)
                    THEN NoParse(q)
                    ELSE ParseRowElems(s, row.next, "item", Append(items, row.items), seps)
  ELSE IF s[q] = Lit(", ")
    THEN IF mode # "item" THEN NoParse(q)
         ELSE ParseRowElems(s, q + 1, "sep", items, seps + 1)
  ELSE NoParse(q)

ParseRows(s, p) ==
  IF p > Len(s) \/ s[p] # Lit("[ ") THEN NoParse(p)
  ELSE ParseRowElems(s, p + 1, "start", <<>>, 0)

SepsFit(l) == l.seps = (IF l.items = <<>> THEN 0 ELSE Len(l.items) - 1)

\* Is the lexeme at position q of s the literal lex?
At(s, q, lex) == q >= 1 /\ q <= Len(s) /\ s[q] = Lit(lex)

\* One record of the document read back from its text s.  ok: the text is
\* a key, nadc, npix, the three coordinate lists and the neighbor lists,
\* every list with its separators between its elements and nowhere else.
Decode(s) ==
  LET X == ParseNums(s, 5, "[", "]")
      Y == ParseNums(s, X.next + 2, "[", "]")
      R == ParseNums(s, Y.next + 2, "[", "]")
      N == ParseRows(s, R.next + 2)
  IN  [ok |-> /\ Len(s) >= 4
              /\ s[1][1] = "key" /\ s[2][1] = "nadc" /\ s[3][1] = "npix"
              /\ At(s, 4, "x") /\ X.ok /\ SepsFit(X)
              /\ At(s, X.next, ",") /\ At(s, X.next + 1, "y") /\ Y.ok /\ SepsFit(Y)
              /\ At(s, Y.next, ",") /\ At(s, Y.next + 1, "r") /\ R.ok /\ SepsFit(R)
              /\ At(s, R.next, ",") /\ At(s, R.next + 1, "neighbors") /\ N.ok /\ SepsFit(N)
              /\ N.next = Len(s)
              /\ (At(s, N.next, "  },") \/ At(s, N.next, "  }")),
       key |-> s[1][2], nadc |-> s[2][2], npix |-> s[3][2],
       x |-> X.items, y |-> Y.items, r |-> R.items, neighbors |-> N.items,
       more |-> At(s, Len(s), "  },")]

\* The text of the i-th dataset written in this run, and its reading.
Seg(i) == SubSeq(json, log[i].from, log[i].to)
Rec(i) == Decode(Seg(i))

(***************************************************************************)
(* What the input is, for the statements below.                            *)
(***************************************************************************)
HasSentinel(row) == \E j \in 1 .. Len(row) : row[j] = -1

\* The entries of a row that precede its first sentinel.
BeforeSentinel(row) ==
  SubSeq(row, 1, (CHOOSE j \in 1 .. Len(row) :
                    row[j] = -1 /\ \A m \in 1 .. j - 1 : row[m] # -1) - 1)

\* The input constraints of a record: the pixel count within every table,
\* and a sentinel in each of the rows it covers.
Valid(c) ==
  LET t == tables[c.tab]
  IN  /\ c.npix <= Len(t.posX) /\ c.npix <= Len(t.posY) /\ c.npix <= Len(t.radius)
      /\ c.npix <= Len(t.neighbors)
      /\ \A i \in 1 .. c.npix : HasSentinel(t.neighbors[i])

\* The i-th call was made, ran to its end, and its record was valid.
Encoded(i) == i \in 1 .. Len(log) /\ log[i].ok /\ Valid(calls[i])

Row(i, p) == tables[calls[i].tab].neighbors[p]

\* One of the rows a record covers holds no sentinel.
MissingSentinel(c) ==
  /\ c.npix <= Len(tables[c.tab].neighbors)
  /\ \E p \in 1 .. c.npix : ~HasSentinel(tables[c.tab].neighbors[p])

\* The places of a text where the entry of key a begins.
KeyPlaces(text, a) == { q \in 1 .. Len(text) : text[q] = <<"key", a>> }

\* The keys of a text, in the order they appear.
KeysOf(text) ==
  LET at == SelectSeq([q \in 1 .. Len(text) |-> q], LAMBDA q : text[q][1] = "key")
  IN  [n \in 1 .. Len(at) |-> text[at[n]][2]]

\* The input is that of main().
IsMain == DOMAIN tables = {"WC109", "WC151", "WC331", "WC490"}

InRange(v, n) == v >= 0 /\ v < n

(***************************************************************************)
(* C1. Every index emitted in any neighbor list of a valid record lies in  *)
(* [0, pixel_count), whatever the row holds before its sentinel: values    *)
(* at or above pixel_count and negative values other than -1 included.     *)
(***************************************************************************)
C1_NeighborsInRange ==
  \A i \in 1 .. Len(log) :
    Encoded(i) =>
      /\ Rec(i).ok
      /\ \A p \in 1 .. Len(Rec(i).neighbors) :
           \A m \in 1 .. Len(Rec(i).neighbors[p]) :
             InRange(Rec(i).neighbors[p][m], calls[i].npix)

\* A valid record was encoded whose row holds, before its sentinel, a
\* negative value other than -1 next to an index that is emitted.
C1_Witness ==
  \E i \in 1 .. Len(log) :
    /\ Encoded(i)
    /\ \E p \in 1 .. calls[i].npix :
         /\ \E m \in 1 .. Len(BeforeSentinel(Row(i, p))) : BeforeSentinel(Row(i, p))[m] < -1
         /\ Rec(i).neighbors[p] # <<>>

(***************************************************************************)
(* C2. As claimed: neighbors[i] is the part of the row before its first    *)
(* -1 with exactly the values v >= pixel_count deleted, order and          *)
(* duplicates kept.                                                        *)
(***************************************************************************)
C2_DropsOnlyAbovePixelCount ==
  \A i \in 1 .. Len(log) :
    Encoded(i) =>
      /\ Rec(i).ok
      /\ Len(Rec(i).neighbors) = calls[i].npix
      /\ \A p \in 1 .. calls[i].npix :
           Rec(i).neighbors[p] =
             SelectSeq(BeforeSentinel(Row(i, p)), LAMBDA v : ~(v >= calls[i].npix))

(***************************************************************************)
(* C2, amended. neighbors[i] is the part of the row before its first -1    *)
(* with exactly the values v >= pixel_count and the values v < 0 deleted:  *)
(* the surviving values keep their order, duplicates are kept, and nothing *)
(* placed after the first sentinel is emitted.                             *)
(***************************************************************************)
C2_DropsOutsideRange ==
  \A i \in 1 .. Len(log) :
    Encoded(i) =>
      /\ Rec(i).ok
      /\ Len(Rec(i).neighbors) = calls[i].npix
      /\ \A p \in 1 .. calls[i].npix :
           Rec(i).neighbors[p] =
             SelectSeq(BeforeSentinel(Row(i, p)), LAMBDA v : InRange(v, calls[i].npix))

\* A valid record was encoded whose row holds, before its sentinel, an index
\* that is kept and a value at or above the pixel count (as in row
\* [1, 4, -1] of a camera of 3 pixels).
C2_Witness ==
  \E i \in 1 .. Len(log) :
    /\ Encoded(i)
    /\ \E p \in 1 .. calls[i].npix :
         LET pre == BeforeSentinel(Row(i, p))
         IN  /\ \E m \in 1 .. Len(pre) : pre[m] >= calls[i].npix
             /\ Rec(i).neighbors[p] # <<>>

(***************************************************************************)
(* C3. As claimed: when one of the first pixel_count rows holds no -1 in   *)
(* its width, the encoding of the record fails, and the scan reads no      *)
(* element at a column index >= the width of the row.                      *)
(***************************************************************************)
C3_MissingSentinelFails ==
  \A i \in 1 .. Len(log) :
    MissingSentinel(calls[i]) =>
      /\ ~log[i].ok
      /\ \A e \in log[i].rd.nbr : e[2] < NUM_NEIGHBORS

(***************************************************************************)
(* C4. As claimed: when two records share a channel count, the document    *)
(* written holds exactly one entry under that key, the encoding of the     *)
(* later record.                                                           *)
(***************************************************************************)
C4_LastWriteWins ==
  pc = "done" =>
    \A i \in 1 .. Len(calls) :
      /\ Cardinality(KeyPlaces(file.text, calls[i].nadc)) = 1
      /\ (\A j \in i + 1 .. Len(calls) : calls[j].nadc # calls[i].nadc) =>
           \A q \in KeyPlaces(file.text, calls[i].nadc) :
             SubSeq(file.text, q, q + Len(Seg(i)) - 1) = Seg(i)

(***************************************************************************)
(* C5. As claimed: if any record violates the input constraints, no text   *)
(* of any record is output.                                                *)
(***************************************************************************)
C5_InvalidInputNoOutput ==
  (\E i \in 1 .. Len(calls) : ~Valid(calls[i])) => file.text = <<>>

(***************************************************************************)
(* C6. As claimed: a valid record is encoded with exactly pixel_count      *)
(* entries in x, y and r, entry i being the source value at index i, with  *)
(* pixel_count neighbor lists, nadc and npix echoing the arguments, and    *)
(* nothing at an index >= pixel_count read.                                *)
(***************************************************************************)
C6_CoordinatesVerbatim ==
  \A i \in 1 .. Len(log) :
    Encoded(i) =>
      LET c == calls[i]
          t == tables[c.tab]
      IN  /\ Rec(i).ok
          /\ Rec(i).key = c.nadc /\ Rec(i).nadc = c.nadc /\ Rec(i).npix = c.npix
          /\ Rec(i).x = SubSeq(t.posX, 1, c.npix)
          /\ Rec(i).y = SubSeq(t.posY, 1, c.npix)
          /\ Rec(i).r = SubSeq(t.radius, 1, c.npix)
          /\ Len(Rec(i).neighbors) = c.npix
          /\ \A e \in log[i].rd.x \cup log[i].rd.y \cup log[i].rd.r \cup log[i].rd.nbr :
               e[1] < c.npix

(***************************************************************************)
(* C7. A record with pixel_count = 0 is encoded as npix = 0 with empty x,  *)
(* y, r and neighbors, and no element of any table is read for it.         *)
(***************************************************************************)
C7_EmptyCamera ==
  \A i \in 1 .. Len(log) :
    calls[i].npix = 0 =>
      /\ log[i].ok
      /\ log[i].rd = [x |-> {}, y |-> {}, r |-> {}, nbr |-> {}]
      /\ Rec(i).ok
      /\ Rec(i).npix = 0
      /\ Rec(i).x = <<>> /\ Rec(i).y = <<>> /\ Rec(i).r = <<>>
      /\ Rec(i).neighbors = <<>>

\* A record with no pixel was encoded.
C7_Witness == \E i \in 1 .. Len(log) : calls[i].npix = 0 /\ log[i].ok

(***************************************************************************)
(* C8. main() emits the header first, then the records keyed 120, 156,     *)
(* 336, 492, 384 in that order, each begun where the one before it ends,   *)
(* and the 384 record is the 492 table cut to the 379 (scaled) pixels.     *)
(***************************************************************************)
C8_MainOrder ==
  IsMain =>
    /\ json # <<>> => SubSeq(json, 1, 2) = <<Lit("{"), Lit("header")>>
    /\ KeysOf(json) = SubSeq(<<120, 156, 336, 492, 384>>, 1, Len(KeysOf(json)))
    /\ pc \in {"end", "write", "done"} => Len(KeysOf(json)) = 5
    /\ pc = "done" => KeysOf(file.text) = <<120, 156, 336, 492, 384>>
    /\ \A i \in 1 .. Len(log) :
         /\ log[i].ok /\ Rec(i).ok
         /\ log[i].from = (IF i = 1 THEN 3 ELSE log[i - 1].to + 1)
         /\ Rec(i).key = KeysOf(json)[i]
    /\ Len(log) = 5 =>
         LET n == Rec(5).npix
         IN  /\ n = Scaled(379) /\ n <= Rec(4).npix
             /\ Rec(5).x = SubSeq(Rec(4).x, 1, n)
             /\ Rec(5).y = SubSeq(Rec(4).y, 1, n)
             /\ Rec(5).r = SubSeq(Rec(4).r, 1, n)
             /\ Len(Rec(5).neighbors) = n
             /\ \A p \in 1 .. n :
                  Rec(5).neighbors[p] =
                    SelectSeq(Rec(4).neighbors[p], LAMBDA v : v < n)

\* main() has written its five records to the file.
C8_Witness == IsMain /\ pc = "done" /\ Len(log) = 5

C10_Separators ==
  \A i \in 1 .. Len(log) :
    log[i].ok =>
      /\ Rec(i).ok
      /\ Rec(i).more = (i < Len(calls))

\* A document of several records was written, one of them from a row whose
\* first entry was filtered out and a later one kept.
C10_Witness ==
  /\ pc = "done"
  /\ Len(log) > 1
  /\ \E i \in 1 .. Len(log) :
       /\ Encoded(i)
       /\ \E p \in 1 .. calls[i].npix :
            LET pre == BeforeSentinel(Row(i, p))
            IN  /\ pre # <<>>
                /\ ~InRange(pre[1], calls[i].npix)
                /\ Rec(i).neighbors[p] # <<>>

====
